---- MODULE Spec2Model ----
(***************************************************************************)
(* A model of the course recommendation service (ml-service):              *)
(*   preprocessing.py  CoursePreprocessor (enrollment parsing, features)   *)
(*   train.py          calculate_elbow_k                                    *)
(*   recommender.py    CourseRecommender (profile, ranking, cluster info)   *)
(*   app.py            get_recommender and the serving endpoints            *)
(*                                                                         *)
(* Strings are sequences of one-character strings.  Real numbers are fixed *)
(* point integers: a feature is in hundredths, a similarity score is in    *)
(* thousandths, a rating in tenths.                                        *)
(***************************************************************************)
EXTENDS Integers, Sequences, FiniteSets, TLC

VARIABLES
  en_in, en_out, en_pc,                 \* _normalize_enrollment: argument, result, position
  el_inertias, el_min_k, el_out, el_pc, \* calculate_elbow_k: inertias, min_k, result, position
  courses_df,       \* CourseRecommender.courses_df: the item table with its cluster column
  feature_matrix,   \* CourseRecommender.feature_matrix: one feature row per item
  kmeans_model,     \* CourseRecommender.kmeans_model: the trained cluster model
  preprocessor,     \* CourseRecommender.preprocessor: the fitted preprocessor state
  phase,            \* "idle": no call running; "done": a call has ended
  call,             \* the call that ended: its arguments, outcome and result
  recommender,      \* app.py's global: 0 is None, n > 0 the n-th CourseRecommender built
  constructed,      \* how many times CourseRecommender(...) has loaded the artifacts
  files,            \* do the three artifact files exist
  pc,               \* per request thread: its position in get_recommender
  endpoint,         \* per request thread: the endpoint it serves
  tmp,              \* per request thread: the object it has built and not yet stored
  observed,         \* per request thread: what its last get_recommender gave
  requests,         \* per request thread: how many requests it has started
  pp,               \* a CoursePreprocessor under operation: its state
  pp_fitted,        \* has a fit_transform completed on it, or on the one its pickle came from
  pp_file,          \* the pickle CoursePreprocessor.save wrote, if any
  pp_call           \* the preprocessor operation that ended: arguments, outcome, result

en_vars == <<en_in, en_out, en_pc>>
el_vars == <<el_inertias, el_min_k, el_out, el_pc>>
shared == <<courses_df, feature_matrix, kmeans_model, preprocessor>>
rec_vars == <<shared, phase, call>>
app_vars == <<recommender, constructed, files, pc, endpoint, tmp, observed, requests>>
pp_vars == <<pp, pp_fitted, pp_file, pp_call>>
vars == <<en_vars, el_vars, rec_vars, app_vars, pp_vars>>

\* ------------------------------------------------------------------ bounds
MaxStrLen == 3
MaxCand == 4
MaxInertia == 4
MaxItems == 4
NThreads == 2
MaxRequests == 2

\* ----------------------------------------------------------------- helpers
Range(s) == {s[i] : i \in 1..Len(s)}

SeqsUpTo(S, n) == UNION {[1..m -> S] : m \in 0..n}

RECURSIVE SumSeq(_)
SumSeq(s) == IF s = <<>> THEN 0 ELSE s[1] + SumSeq(Tail(s))

RECURSIVE Pow10(_)
Pow10(n) == IF n = 0 THEN 1 ELSE 10 * Pow10(n - 1)

Min2(a, b) == IF a <= b THEN a ELSE b
Max2(a, b) == IF a >= b THEN a ELSE b

\* -------------------------------------------- preprocessing.py: enrollment
\* a value is a text, or missing (None, NaN: pd.isna)
Missing == [isna |-> TRUE, text |-> <<>>]

Text(s) == [isna |-> FALSE, text |-> s]

Digits == {"0", "1", "2", "3", "4", "5", "6", "7", "8", "9"}
Whitespace == {" "}

DigitValue(c) ==
  CASE c = "0" -> 0 [] c = "1" -> 1 [] c = "2" -> 2 [] c = "3" -> 3 [] c = "4" -> 4
    [] c = "5" -> 5 [] c = "6" -> 6 [] c = "7" -> 7 [] c = "8" -> 8 [] c = "9" -> 9

\* str.upper() on the characters the model uses
UpperChar(c) ==
  CASE c = "k" -> "K" [] c = "m" -> "M" [] c = "a" -> "A" [] c = "b" -> "B"
    [] c = "c" -> "C" [] c = "x" -> "X" [] c = "z" -> "Z" [] OTHER -> c

Upper(s) == [i \in 1..Len(s) |-> UpperChar(s[i])]

\* str.strip(): leading and trailing whitespace removed
RECURSIVE LStrip(_)
LStrip(s) == IF s # <<>> /\ s[1] \in Whitespace THEN LStrip(Tail(s)) ELSE s

RECURSIVE RStrip(_)
RStrip(s) ==
  IF s # <<>> /\ s[Len(s)] \in Whitespace THEN RStrip(SubSeq(s, 1, Len(s) - 1)) ELSE s

Strip(s) == LStrip(RStrip(s))

\* the end (exclusive) of the longest run of characters of S that starts at i
RECURSIVE RunEnd(_, _, _)
RunEnd(s, i, S) == IF i <= Len(s) /\ s[i] \in S THEN RunEnd(s, i + 1, S) ELSE i

\* re.search(r'([\d.]+)\s*([KM]?)', s): the leftmost match; every part after
\* group 1 is optional, so group 1 is the longest run at the first digit or dot
NoMatch == [found |-> FALSE]

EnrollmentSearch(s) ==
  LET starts == {i \in 1..Len(s) : s[i] \in Digits \cup {"."}}
  IN IF starts = {} THEN NoMatch
     ELSE LET i == CHOOSE x \in starts : \A y \in starts : x <= y
              j == RunEnd(s, i, Digits \cup {"."})
              k == RunEnd(s, j, Whitespace)
          IN [found |-> TRUE,
              group1 |-> SubSeq(s, i, j - 1),
              group2 |-> IF k <= Len(s) /\ s[k] \in {"K", "M"} THEN <<s[k]>> ELSE <<>>]

\* float(text) for a text of digits and dots: it parses when the text has at
\* most one dot and at least one digit, and raises ValueError otherwise.  The
\* value is the rational num/den.
RECURSIVE DigitsValue(_)
DigitsValue(s) ==
  IF s = <<>> THEN 0 ELSE 10 * DigitsValue(SubSeq(s, 1, Len(s) - 1)) + DigitValue(s[Len(s)])

ValueError == [kind |-> "raise"]

Number(n, d) == [kind |-> "value", num |-> n, den |-> d]

Float(text) ==
  LET dots == {i \in 1..Len(text) : text[i] = "."}
      digs == SelectSeq(text, LAMBDA c : c \in Digits)
  IN IF Cardinality(dots) > 1 \/ digs = <<>> THEN ValueError
     ELSE LET decimals == IF dots = {} THEN 0 ELSE Len(text) - (CHOOSE i \in dots : TRUE)
          IN Number(DigitsValue(digs), Pow10(decimals))

\* CoursePreprocessor._normalize_enrollment
NormalizeEnrollment(enrollment_str) ==
  IF enrollment_str.isna THEN Number(0, 1)
  ELSE LET s == Upper(Strip(enrollment_str.text))
           match == EnrollmentSearch(s)
       IN IF ~match.found THEN Number(0, 1)
          ELSE LET number == Float(match.group1)
                   multiplier == match.group2
               IN IF number.kind = "raise" THEN ValueError
                  ELSE IF multiplier = <<"M">> THEN Number(number.num * 1000000, number.den)
                  ELSE IF multiplier = <<"K">> THEN Number(number.num * 1000, number.den)
                  ELSE number

EnrollChars == {"1", "2", ".", "K", "m", " ", "x"}

EnrollInputs == {Missing} \cup {Text(s) : s \in SeqsUpTo(EnrollChars, MaxStrLen)}

EnrollInit ==
  /\ en_in \in EnrollInputs
  /\ en_out = [kind |-> "none"]
  /\ en_pc = "call"

EnrollIdle ==
  /\ en_in = Missing
  /\ en_out = [kind |-> "none"]
  /\ en_pc = "off"

NormalizeEnrollmentCall ==
  /\ en_pc = "call"
  /\ en_out' = NormalizeEnrollment(en_in)
  /\ en_pc' = "done"
  /\ UNCHANGED <<en_in, el_vars, rec_vars, app_vars, pp_vars>>

\* ------------------------------------------------------------- claims: C10
\* the first run of digits and dots of the stripped, upper-cased text (group 1)
EnrollGroup1(v) == EnrollmentSearch(Upper(Strip(v.text)))

\* a text whose number is well formed: at most one dot, at least one digit
WellFormedNumber(text) ==
  /\ Cardinality({i \in 1..Len(text) : text[i] = "."}) <= 1
  /\ \E i \in 1..Len(text) : text[i] \in Digits

\* C10: enrollment normalization is total: suffix K gives number x 1,000,
\* suffix M number x 1,000,000, no suffix the number itself, and every missing
\* or unparseable value (a lone '.', '1.2.3') gives 0; no call raises.
C10_EnrollmentTotal ==
  en_pc = "done" =>
    /\ en_out.kind = "value"
    /\ (en_in.isna \/ ~EnrollGroup1(en_in).found
        \/ ~WellFormedNumber(EnrollGroup1(en_in).group1)) => en_out.num = 0
    /\ (~en_in.isna /\ EnrollGroup1(en_in).found
        /\ WellFormedNumber(EnrollGroup1(en_in).group1)) =>
         LET m == EnrollGroup1(en_in)
             number == Float(m.group1)
             factor == IF m.group2 = <<"M">> THEN 1000000
                       ELSE IF m.group2 = <<"K">> THEN 1000 ELSE 1
         IN en_out.num * number.den = number.num * factor * en_out.den

\* what the code does keep: a call raises exactly when the run of digits and
\* dots is no number, and the rest of C10 holds of every call that returns
C10_RaisesOnlyOnMalformed ==
  en_pc = "done" =>
    /\ (en_out.kind = "raise") <=>
         (~en_in.isna /\ EnrollGroup1(en_in).found
          /\ ~WellFormedNumber(EnrollGroup1(en_in).group1))
    /\ en_out.kind = "value" => C10_EnrollmentTotal

\* ".": the search finds the run ".", float(".") raises
C10_LoneDotRaises == en_pc = "done" /\ en_in = Text(<<".">>) /\ en_out.kind = "raise"

\* ------------------------------------------- preprocessing.py: the features
\* floor of the square root
RECURSIVE ISqrtIn(_, _, _)
ISqrtIn(n, lo, hi) ==
  IF lo >= hi THEN lo
  ELSE LET mid == (lo + hi + 1) \div 2
       IN IF mid * mid <= n THEN ISqrtIn(n, mid, hi) ELSE ISqrtIn(n, lo, mid - 1)

ISqrt(n) == ISqrtIn(n, 0, Min2(n, 46340))

Dot(a, b) == SumSeq([i \in 1..Len(a) |-> a[i] * b[i]])

\* np.linalg.norm
Norm(a) == ISqrt(Dot(a, a))

\* CoursePreprocessor._encode_difficulty, in tenths of a level
EncodeDifficulty(difficulty) ==
  CASE difficulty = "Beginner" -> 10
    [] difficulty = "Intermediate" -> 20
    [] difficulty = "Advanced" -> 30
    [] difficulty = "Mixed" -> 25
    [] OTHER -> 20

\* the enrollment of a row as a number (a row whose text is no number is not
\* part of any catalog here: the table could not be transformed)
EnrollmentNumeric(v) ==
  LET r == NormalizeEnrollment(v) IN r.num \div r.den

\* the three numeric columns of a row, each in its own unit: the rating in
\* tenths, the enrollment in 100,000s, the difficulty in tenths
NumericFeatures(row) ==
  <<row.course_rating,
    EnrollmentNumeric(row.course_students_enrolled) \div 100000,
    EncodeDifficulty(row.course_difficulty)>>

\* the category names of the model in sorted order (pd.get_dummies sorts)
NameOrder == <<"Course", "Q", "Spec", "X", "Y">>

\* pd.get_dummies(column, prefix): one column per observed category, sorted
DummyColumns(values, prefix) ==
  LET seen == SelectSeq(NameOrder, LAMBDA n : n \in values)
  IN [i \in 1..Len(seen) |-> <<prefix, seen[i]>>]

LowerChar(c) ==
  CASE c = "A" -> "a" [] c = "B" -> "b" [] c = "C" -> "c" [] c = "Z" -> "z"
    [] OTHER -> c

Lower(s) == [i \in 1..Len(s) |-> LowerChar(s[i])]

WordChars == {"a", "b", "c", "z", "A", "B", "C", "Z"} \cup Digits

\* TfidfVectorizer's analyzer: lower-cased runs of two or more word characters
RECURSIVE TokensFrom(_, _)
TokensFrom(s, i) ==
  IF i > Len(s) THEN {}
  ELSE IF s[i] \notin WordChars THEN TokensFrom(s, i + 1)
  ELSE LET j == RunEnd(s, i, WordChars)
       IN (IF j - i >= 2 THEN {Lower(SubSeq(s, i, j - 1))} ELSE {}) \cup TokensFrom(s, j)

Tokens(title) == TokensFrom(title, 1)

\* the tokens of the model in sorted order (the vocabulary is sorted)
TokenOrder == <<<<"a", "b">>, <<"a", "c">>, <<"b", "c">>, <<"c", "a">>, <<"z", "z">>>>

\* StandardScaler.fit on one column: the mean and the population standard
\* deviation, both in hundredths of the column's unit; a constant column has
\* scale 1.0
ScalerFitColumn(column, one) ==
  LET n == Len(column)
      mean == (SumSeq(column) * 100) \div n
      dev == [i \in 1..n |-> column[i] * 100 - mean]
      std == ISqrt(Dot(dev, dev) \div n)
  IN [mean |-> mean, scale |-> IF std = 0 THEN one ELSE std]

\* 1.0 in hundredths of each numeric column's unit
ScaleOne == <<1000, 1, 1000>>

\* StandardScaler.transform of one value, in hundredths
ScalerTransform(scaler, value) == ((value * 100 - scaler.mean) * 100) \div scaler.scale

NumericNames == <<<<"num", "rating_scaled">>, <<"num", "enrollment_scaled">>,
                  <<"num", "difficulty_scaled">>>>

\* CoursePreprocessor.fit_transform: the state it leaves
FitState(df) ==
  LET orgs == DummyColumns({df[i].course_organization : i \in 1..Len(df)}, "org")
      certs == DummyColumns({df[i].course_Certificate_type : i \in 1..Len(df)}, "cert")
      tokens == UNION {Tokens(df[i].course_title) : i \in 1..Len(df)}
      vocabulary == SelectSeq(TokenOrder, LAMBDA t : t \in tokens)
      titles == [i \in 1..Len(vocabulary) |-> <<"title_tfidf", ToString(i - 1)>>]
  IN [is_fitted |-> TRUE,
      scaler |-> [c \in 1..3 |->
                    ScalerFitColumn([i \in 1..Len(df) |-> NumericFeatures(df[i])[c]],
                                    ScaleOne[c])],
      vocabulary |-> vocabulary,
      feature_names |-> NumericNames \o orgs \o certs \o titles]

\* the columns of feature_names with a prefix, in the fitted order
ColumnsWith(feature_names, prefix) == SelectSeq(feature_names, LAMBDA c : c[1] = prefix)

\* one row of CoursePreprocessor.transform, in hundredths
TransformRow(pre, row) ==
  LET org_cols == ColumnsWith(pre.feature_names, "org")
      cert_cols == ColumnsWith(pre.feature_names, "cert")
  IN [c \in 1..3 |-> ScalerTransform(pre.scaler[c], NumericFeatures(row)[c])]
     \o [i \in 1..Len(org_cols) |->
           IF org_cols[i][2] = row.course_organization THEN 100 ELSE 0]
     \o [i \in 1..Len(cert_cols) |->
           IF cert_cols[i][2] = row.course_Certificate_type THEN 100 ELSE 0]
     \o [i \in 1..Len(pre.vocabulary) |->
           IF Tokens(row.course_title) = {pre.vocabulary[i]} THEN 100 ELSE 0]

\* a transform without lines 124-129 and 133-137: the one-hot columns are
\* those of the batch
TransformMatrixOwnDummies(pre, df) ==
  LET orgs == DummyColumns({df[i].course_organization : i \in 1..Len(df)}, "org")
      certs == DummyColumns({df[i].course_Certificate_type : i \in 1..Len(df)}, "cert")
  IN [r \in 1..Len(df) |->
        [c \in 1..3 |-> ScalerTransform(pre.scaler[c], NumericFeatures(df[r])[c])]
        \o [i \in 1..Len(orgs) |->
              IF orgs[i][2] = df[r].course_organization THEN 100 ELSE 0]
        \o [i \in 1..Len(certs) |->
              IF certs[i][2] = df[r].course_Certificate_type THEN 100 ELSE 0]
        \o [i \in 1..Len(pre.vocabulary) |->
              IF Tokens(df[r].course_title) = {pre.vocabulary[i]} THEN 100 ELSE 0]]

\* CoursePreprocessor.transform: the matrix, one row per item
TransformMatrix(pre, df) == [i \in 1..Len(df) |-> TransformRow(pre, df[i])]

\* ------------------------------------------------ recommender.py: the model
\* KMeans.predict of one vector: the nearest centre, the first one on a tie;
\* the vector is in units of scale hundredths
SqDist(x, c, scale) == SumSeq([i \in 1..Len(c) |-> (x[i] - c[i] * scale) * (x[i] - c[i] * scale)])

Predict(centers, x, scale) ==
  (CHOOSE j \in 1..Len(centers) :
     /\ \A l \in 1..Len(centers) : SqDist(x, centers[j], scale) <= SqDist(x, centers[l], scale)
     /\ \A l \in 1..(j - 1) : SqDist(x, centers[j], scale) < SqDist(x, centers[l], scale)) - 1

\* the rows of a table, in order, that satisfy a test
Rows(df) == 1..Len(df)

\* Series.isin
IsIn(value, list) == value \in Range(list)

\* re.compile('|'.join(liked_courses)): of the characters of the model, '.' is
\* the wildcard and an unclosed '(' is a pattern that does not compile
ValidPattern(liked_courses) ==
  \A i \in 1..Len(liked_courses) : "(" \notin Range(liked_courses[i])

MatchesAt(alt, title, off) ==
  \A i \in 1..Len(alt) :
    /\ off + i - 1 <= Len(title)
    /\ alt[i] = "." \/ LowerChar(alt[i]) = LowerChar(title[off + i - 1])

\* Series.str.contains('|'.join(liked_courses), case=False): a regular
\* expression search, one alternative per liked title
Contains(title, liked_courses) ==
  \E a \in 1..Len(liked_courses) : \E off \in 1..(Len(title) + 1) :
    MatchesAt(liked_courses[a], title, off)

\* the literal, case-insensitive substring test (what '.' would be if the
\* liked titles were not patterns)
ContainsLiteral(title, liked_courses) ==
  \E a \in 1..Len(liked_courses) : \E off \in 1..(Len(title) + 1) :
    /\ off + Len(liked_courses[a]) - 1 <= Len(title)
    /\ Lower(SubSeq(title, off, off + Len(liked_courses[a]) - 1)) = Lower(liked_courses[a])

MinOf(S) == CHOOSE x \in S : \A y \in S : x <= y
MaxOf(S) == CHOOSE x \in S : \A y \in S : x >= y

\* (x - min) / (max - min + 1e-6) in thousandths; the 1e-6 only keeps a
\* constant column from dividing by zero
MinMax(x, S) ==
  LET lo == MinOf(S)
      hi == MaxOf(S)
  IN IF hi = lo THEN 0 ELSE ((x - lo) * 1000) \div (hi - lo)

\* lines 68-75: the pool after the difficulty filter
PoolDifficulty(df, preferred_difficulty) ==
  IF preferred_difficulty # ""
  THEN {i \in Rows(df) : df[i].course_difficulty = preferred_difficulty}
  ELSE Rows(df)
\* a variant of the liked filter that keeps the narrowed pool even when nothing
\* matched (lines 83 and 87 without their any() guards)
PoolLikedUnguarded(df, pool, liked_courses) ==
  IF liked_courses # <<>>
  THEN LET exact == {i \in pool : IsIn(df[i].course_title, liked_courses)}
       IN IF exact # {} THEN exact
          ELSE {i \in pool : Contains(df[i].course_title, liked_courses)}
  ELSE pool

\* lines 77-88: the pool after the liked-courses filter
PoolLiked(df, pool, liked_courses) ==
  IF liked_courses # <<>>
  THEN LET exact == {i \in pool : IsIn(df[i].course_title, liked_courses)}
           partial == {i \in pool : Contains(df[i].course_title, liked_courses)}
       IN IF exact # {} THEN exact
          ELSE IF partial # {} THEN partial ELSE pool
  ELSE pool

\* lines 90-94: the pool after the organization filter
PoolOrganizations(df, pool, preferred_organizations) ==
  IF preferred_organizations # <<>>
  THEN LET org == {i \in pool : IsIn(df[i].course_organization, preferred_organizations)}
       IN IF org # {} THEN org ELSE pool
  ELSE pool

\* the pool after all narrowing (line 95)
NarrowedPool(df, preferred_difficulty, liked_courses, preferred_organizations) ==
  PoolOrganizations(df,
    PoolLiked(df, PoolDifficulty(df, preferred_difficulty), liked_courses),
    preferred_organizations)

\* lines 96-101: the confidence weight, in hundredths
PoolWeight(pool) == IF pool = {} THEN 50 ELSE 100

\* lines 122-125: the profile divided by its norm, in thousandths
Normalize(u) ==
  LET profile_norm == Norm(u)
  IN IF profile_norm > 0 THEN [c \in 1..Len(u) |-> (u[c] * 1000) \div profile_norm] ELSE u

\* lines 103-120: the weighted average of the pool's feature rows times the
\* confidence weight, in thousandths
WeightedMean(df, fm, matching, weight, rating_bias) ==
  LET ratings == {df[i].course_rating : i \in matching}
      rating_weight(i) ==
        IF rating_bias > 0
        THEN 1000 + (rating_bias * MinMax(df[i].course_rating, ratings)) \div 100
        ELSE 1000
      mean(c) == SumSeq([i \in 1..Len(df) |->
                   IF i \in matching THEN fm[i][c] * rating_weight(i) ELSE 0])
                 \div (100 * Cardinality(matching))
  IN [c \in 1..Len(fm[1]) |-> (mean(c) * weight) \div 100]

\* does the fallback search of lines 84-86 run, and with a pattern that does
\* not compile
FallbackRaises(df, preferred_difficulty, liked_courses) ==
  /\ liked_courses # <<>>
  /\ \A i \in PoolDifficulty(df, preferred_difficulty) :
       ~IsIn(df[i].course_title, liked_courses)
  /\ ~ValidPattern(liked_courses)

\* CourseRecommender._create_user_profile
CreateUserProfile(df, fm, preferred_difficulty, liked_courses, preferred_organizations, rating_bias) ==
  IF FallbackRaises(df, preferred_difficulty, liked_courses)
  THEN [kind |-> "raise", error |-> "re.error"]
  ELSE LET pool == NarrowedPool(df, preferred_difficulty, liked_courses,
                                preferred_organizations)
           weight == PoolWeight(pool)
           matching == IF pool = {} THEN Rows(df) ELSE pool
       IN [kind |-> "value",
           pool |-> pool,
           weight |-> weight,
           user_profile |-> Normalize(WeightedMean(df, fm, matching, weight, rating_bias))]

\* sklearn cosine_similarity of the profile (thousandths) and a feature row
\* (hundredths), in thousandths; a zero vector has similarity 0
CosineSimilarity(profile, row) ==
  LET profile_norm == Norm(profile)
      row_norm == Norm(row)
  IN IF profile_norm = 0 \/ row_norm = 0 THEN 0
     ELSE (Dot(profile, row) * 1000) \div (profile_norm * row_norm)

\* line 169: the same-cluster boost
ClusterBoost(similarity, same_cluster) ==
  IF same_cluster THEN (similarity * 12) \div 10 ELSE similarity

\* lines 163-179: the similarity_score column of the results table
SimilarityScores(df, similarities, user_cluster) ==
  LET ratings == {df[i].course_rating : i \in Rows(df)}
      enrollments == {df[i].enrollment_numeric \div 100000 : i \in Rows(df)}
  IN [i \in Rows(df) |->
        ClusterBoost(similarities[i], df[i].cluster = user_cluster)
        + (50 * MinMax(df[i].course_rating, ratings)) \div 1000
        + (30 * MinMax(df[i].enrollment_numeric \div 100000, enrollments)) \div 1000]
\* a variant of the two filters without the second one (lines 187-189 left out)
SurvivingLikedKept(df, liked_courses, exclude_courses) ==
  {i \in Rows(df) :
     ~(exclude_courses # <<>> /\ IsIn(df[i].course_title, exclude_courses))}

\* lines 181-189: the rows left after the exclusions
Surviving(df, liked_courses, exclude_courses) ==
  {i \in Rows(df) :
     /\ ~(exclude_courses # <<>> /\ IsIn(df[i].course_title, exclude_courses))
     /\ ~(liked_courses # <<>> /\ IsIn(df[i].course_title, liked_courses))}

\* line 192: sort_values('similarity_score', ascending=False) with the default
\* kind (quicksort, which is not stable): any order of the rows in which the
\* scores do not increase
RECURSIVE SortValues(_, _)
SortValues(rows, score) ==
  IF rows = {} THEN {<<>>}
  ELSE UNION {{<<m>> \o rest : rest \in SortValues(rows \ {m}, score)} :
              m \in {x \in rows : \A y \in rows : score[x] >= score[y]}}

\* line 195: DataFrame.head(limit), limit >= 0
HeadRows(s, limit) == SubSeq(s, 1, Min2(limit, Len(s)))

\* "; ".join(parts): a text is the sequence of its pieces
RECURSIVE Join(_)
Join(parts) ==
  IF parts = <<>> THEN <<>>
  ELSE IF Len(parts) = 1 THEN parts[1]
  ELSE parts[1] \o <<"; ">> \o Join(Tail(parts))

\* a variant of lines 209-213 with the rating part ahead of the organization part
ExplanationRatingFirst(row, user_cluster, preferred_difficulty, preferred_organizations) ==
  LET explanation_parts ==
        (IF row.cluster = user_cluster
         THEN <<<<"Same cluster as your preferences">>>> ELSE <<>>)
        \o (IF preferred_difficulty # "" /\ row.course_difficulty = preferred_difficulty
            THEN <<<<"Matches your ", preferred_difficulty, " difficulty preference">>>>
            ELSE <<>>)
        \o (IF row.course_rating >= 45 THEN <<<<"Highly rated course">>>> ELSE <<>>)
        \o (IF preferred_organizations # <<>>
               /\ IsIn(row.course_organization, preferred_organizations)
            THEN <<<<"From preferred organization: ", row.course_organization>>>> ELSE <<>>)
        \o (IF row.enrollment_numeric >= 1000000
            THEN <<<<"Popular course (1M+ enrollments)">>>> ELSE <<>>)
  IN IF explanation_parts # <<>> THEN Join(explanation_parts)
     ELSE <<"Similar content and features">>

\* lines 200-218: the explanation, its parts joined by "; "
Explanation(row, user_cluster, preferred_difficulty, preferred_organizations) ==
  LET explanation_parts ==
        (IF row.cluster = user_cluster
         THEN <<<<"Same cluster as your preferences">>>> ELSE <<>>)
        \o (IF preferred_difficulty # "" /\ row.course_difficulty = preferred_difficulty
            THEN <<<<"Matches your ", preferred_difficulty, " difficulty preference">>>>
            ELSE <<>>)
        \o (IF preferred_organizations # <<>>
               /\ IsIn(row.course_organization, preferred_organizations)
            THEN <<<<"From preferred organization: ", row.course_organization>>>> ELSE <<>>)
        \o (IF row.course_rating >= 45 THEN <<<<"Highly rated course">>>> ELSE <<>>)
        \o (IF row.enrollment_numeric >= 1000000
            THEN <<<<"Popular course (1M+ enrollments)">>>> ELSE <<>>)
  IN IF explanation_parts # <<>> THEN Join(explanation_parts)
     ELSE <<"Similar content and features">>

\* lines 220-230: one recommendation
Recommendation(row, score, user_cluster, preferred_difficulty, preferred_organizations) ==
  [course_title |-> row.course_title,
   organization |-> row.course_organization,
   certificate_type |-> row.course_Certificate_type,
   rating |-> row.course_rating,
   difficulty |-> row.course_difficulty,
   students_enrolled |-> row.course_students_enrolled,
   similarity_score |-> score,
   cluster |-> row.cluster,
   explanation |-> Explanation(row, user_cluster, preferred_difficulty,
                               preferred_organizations)]

\* CourseRecommender.get_cluster_info
ClusterInfo(df, cluster_id) ==
  LET cluster_courses == SelectSeq(df, LAMBDA r : r.cluster = cluster_id)
      n == Len(cluster_courses)
      count(field, v) == Cardinality({i \in 1..n : cluster_courses[i][field] = v})
  IN [cluster_id |-> cluster_id,
      n_courses |-> n,
      avg_rating |-> IF n = 0 THEN [nan |-> TRUE, value |-> 0]
                     ELSE [nan |-> FALSE,
                           value |-> SumSeq([i \in 1..n |-> cluster_courses[i].course_rating * 100])
                                     \div n],
      difficulty_distribution |->
        {<<cluster_courses[i].course_difficulty,
           count("course_difficulty", cluster_courses[i].course_difficulty)>> : i \in 1..n},
      top_organizations |->
        {<<cluster_courses[i].course_organization,
           count("course_organization", cluster_courses[i].course_organization)>> : i \in 1..n},
      sample_courses |-> [i \in 1..Min2(n, 10) |-> cluster_courses[i].course_title]]

\* ------------------------------------------ recommender.py: the state machine
Item(title, org, cert, rating, difficulty, enrolled) ==
  [course_title |-> title, course_organization |-> org,
   course_Certificate_type |-> cert, course_rating |-> rating,
   course_difficulty |-> difficulty, course_students_enrolled |-> Text(enrolled)]

\* the items catalogs are drawn from: three Beginner courses that differ in
\* their title only, and an Advanced, highly rated, popular one
ItemPool ==
  <<Item(<<"A", "b">>, "X", "Course", 30, "Beginner", <<"1", "0", "0", "K">>),
    Item(<<"a", "c">>, "X", "Course", 30, "Beginner", <<"1", "0", "0", "K">>),
    Item(<<"z", "z">>, "X", "Course", 30, "Beginner", <<"1", "0", "0", "K">>),
    Item(<<"B", "c">>, "Y", "Course", 50, "Advanced", <<"2", "M">>)>>

\* train_model fits optimal_k clusters, and calculate_elbow_k gives at least
\* min_k + 1 = 3
NClusters == 3

\* the catalogs: tables of NClusters to MaxItems rows (KMeans needs at least
\* n_clusters rows), each row an item of the pool, in the pool's order
Catalogs ==
  UNION {{[i \in 1..n |-> ItemPool[ix[i]]] :
            ix \in {f \in [1..n -> 1..Len(ItemPool)] :
                      \A i \in 1..(n - 1) : f[i] <= f[i + 1]}} :
         n \in NClusters..MaxItems}

\* the clusterings of n rows into k non-empty clusters, numbered by first row
Clusterings(n, k) ==
  {a \in [1..n -> 0..(k - 1)] :
     /\ \A c \in 0..(k - 1) : \E i \in 1..n : a[i] = c
     /\ \A i \in 1..n : \A c \in 0..(a[i] - 1) : \E j \in 1..(i - 1) : a[j] = c}

\* KMeans.cluster_centers_ of a clustering: the mean of each cluster's rows
Centers(fm, a, k) ==
  [c \in 1..k |->
     LET members == {i \in 1..Len(fm) : a[i] = c - 1}
     IN [d \in 1..Len(fm[1]) |->
           SumSeq([i \in 1..Len(fm) |-> IF i \in members THEN fm[i][d] ELSE 0])
           \div Cardinality(members)]]

\* the models KMeans.fit can end with on these rows: the centres of a
\* clustering in which every row is nearest to the centre of its own cluster
KMeansModels(fm) ==
  {[n_clusters |-> NClusters, cluster_centers |-> Centers(fm, a, NClusters)] :
     a \in {b \in Clusterings(Len(fm), NClusters) :
              \A i \in 1..Len(fm) : Predict(Centers(fm, b, NClusters), fm[i], 1) = b[i]}}

\* CourseRecommender.__init__: lines 43-49, the table with the columns that
\* transform and predict add
LoadedTable(catalog, fm, model) ==
  [i \in 1..Len(catalog) |->
     [f \in DOMAIN catalog[i] \cup {"enrollment_numeric", "difficulty_encoded", "cluster"} |->
        CASE f = "enrollment_numeric" ->
               EnrollmentNumeric(catalog[i].course_students_enrolled)
          [] f = "difficulty_encoded" -> EncodeDifficulty(catalog[i].course_difficulty)
          [] f = "cluster" -> Predict(model.cluster_centers, fm[i], 1)
          [] OTHER -> catalog[i][f]]]

NoCall ==
  [op |-> "none", preferred_difficulty |-> "", liked_courses |-> <<>>,
   preferred_organizations |-> <<>>, limit |-> 0, rating_bias |-> 0,
   exclude_courses |-> <<>>, cluster_id |-> 0,
   outcome |-> "none", error |-> "",
   recommendations |-> <<>>, info |-> [cluster_id |-> 0, n_courses |-> 0],
   \* what the call computed on the way, kept for the properties
   rows |-> <<>>, similarities |-> <<>>, scores |-> <<>>, user_cluster |-> 0,
   user_profile |-> <<>>, weight |-> 0]

RecInit ==
  \E catalog \in Catalogs :
    LET pre == FitState(catalog)
        fm == TransformMatrix(pre, catalog)
    IN \E model \in KMeansModels(fm) :
         /\ preprocessor = pre
         /\ feature_matrix = fm
         /\ kmeans_model = model
         /\ courses_df = LoadedTable(catalog, fm, model)
         /\ phase = "idle"
         /\ call = NoCall

RecIdle ==
  /\ preprocessor = [is_fitted |-> FALSE]
  /\ feature_matrix = <<>>
  /\ kmeans_model = [n_clusters |-> 0, cluster_centers |-> <<>>]
  /\ courses_df = <<>>
  /\ phase = "off"
  /\ call = NoCall

\* the arguments calls are made with.  "" is no difficulty (None), <<>> no list
Difficulties == {"", "Advanced", "Mixed"}

LikedChoices ==
  {<<>>, <<<<"A", "b">>>>, <<<<"a", "b">>>>, <<<<"a", ".">>>>, <<<<"(">>>>, <<<<"c", "a">>>>}

OrganizationChoices == {<<>>, <<"Y">>, <<"Q">>}

ExcludeChoices == {<<>>, <<<<"a", "c">>>>, <<<<"A", "b">>, <<"a", "c">>, <<"B", "c">>>>}

Limits == {1, 2, 50}

\* rating_bias in hundredths
RatingBiases == {0, 10}

ClusterIds == -1..4

\* a variant of line 164 without the copy: the scores are written into the
\* shared table
TableScoredInPlace(df, scores) ==
  [i \in Rows(df) |->
     [f \in DOMAIN df[i] \cup {"similarity_score"} |->
        IF f = "similarity_score" THEN scores[i] ELSE df[i][f]]]

\* lines 164-165: the scores are written to results, a copy of the table; the
\* shared table is what it was
TableAfterRecommend(df, scores) == df

\* what recommend computes before it filters: the profile, the base
\* similarities, the profile's cluster and the boosted scores
Scored(df, fm, model, created) ==
  LET user_profile == created.user_profile
      similarities == [i \in Rows(df) |-> CosineSimilarity(user_profile, fm[i])]
      user_cluster == Predict(model.cluster_centers, user_profile, 10)
  IN [user_profile |-> user_profile,
      weight |-> created.weight,
      similarities |-> similarities,
      user_cluster |-> user_cluster,
      scores |-> SimilarityScores(df, similarities, user_cluster)]

\* CourseRecommender.recommend
Recommend ==
  /\ phase = "idle"
  /\ \E d \in Difficulties, l \in LikedChoices, o \in OrganizationChoices,
        rb \in RatingBiases :
     \E created \in {CreateUserProfile(courses_df, feature_matrix, d, l, o, rb)} :
       LET args == [NoCall EXCEPT !.op = "recommend", !.preferred_difficulty = d,
                      !.liked_courses = l, !.preferred_organizations = o,
                      !.rating_bias = rb]
       IN IF created.kind = "raise"
          THEN \E lim \in Limits, ex \in ExcludeChoices :
                 /\ call' = [args EXCEPT !.limit = lim, !.exclude_courses = ex,
                               !.outcome = "raised", !.error = created.error]
                 /\ UNCHANGED courses_df
          ELSE \E s \in {Scored(courses_df, feature_matrix, kmeans_model, created)} :
               \E lim \in Limits, ex \in ExcludeChoices :
               \E results \in SortValues(Surviving(courses_df, l, ex), s.scores) :
                 \E top_recommendations \in {HeadRows(results, lim)} :
                    /\ call' = [args EXCEPT
                          !.limit = lim,
                          !.exclude_courses = ex,
                          !.outcome = "returned",
                          !.recommendations =
                            [n \in 1..Len(top_recommendations) |->
                               Recommendation(courses_df[top_recommendations[n]],
                                              s.scores[top_recommendations[n]],
                                              s.user_cluster, d, o)],
                          !.rows = top_recommendations,
                          !.similarities = s.similarities,
                          !.scores = s.scores,
                          !.user_cluster = s.user_cluster,
                          !.user_profile = s.user_profile,
                          !.weight = s.weight]
                    /\ courses_df' = TableAfterRecommend(courses_df, s.scores)
  /\ phase' = "done"
  /\ UNCHANGED <<feature_matrix, kmeans_model, preprocessor, en_vars, el_vars, app_vars, pp_vars>>

\* CourseRecommender.get_cluster_info, called with any cluster_id
GetClusterInfo ==
  /\ phase = "idle"
  /\ \E cluster_id \in ClusterIds :
       call' = [NoCall EXCEPT !.op = "get_cluster_info", !.cluster_id = cluster_id,
                  !.outcome = "returned", !.info = ClusterInfo(courses_df, cluster_id)]
  /\ phase' = "done"
  /\ UNCHANGED <<shared, en_vars, el_vars, app_vars, pp_vars>>

\* a variant of the range check that lets cluster_id = n_clusters through
InvalidClusterIdOffByOne(model, cluster_id) ==
  cluster_id < 0 \/ cluster_id > model.n_clusters

\* app.py lines 171-175: the check of the /clusters/{cluster_id} endpoint
InvalidClusterId(model, cluster_id) == cluster_id < 0 \/ cluster_id >= model.n_clusters

\* app.py get_cluster_info: the /clusters/{cluster_id} endpoint
ClustersEndpoint ==
  /\ phase = "idle"
  /\ \E cluster_id \in ClusterIds :
       call' = IF InvalidClusterId(kmeans_model, cluster_id)
               THEN [NoCall EXCEPT !.op = "GET /clusters", !.cluster_id = cluster_id,
                       !.outcome = "raised", !.error = "400 Invalid cluster_id"]
               ELSE [NoCall EXCEPT !.op = "GET /clusters", !.cluster_id = cluster_id,
                       !.outcome = "returned", !.info = ClusterInfo(courses_df, cluster_id)]
  /\ phase' = "done"
  /\ UNCHANGED <<shared, en_vars, el_vars, app_vars, pp_vars>>

\* the caller takes the result; the next call may start
Return ==
  /\ phase = "done"
  /\ phase' = "idle"
  /\ call' = NoCall
  /\ UNCHANGED <<shared, en_vars, el_vars, app_vars, pp_vars>>

RecNext == Recommend \/ GetClusterInfo \/ ClustersEndpoint \/ Return

\* ------------------------------------------------------ claims: C1 .. C4
RecommendEnded == phase = "done" /\ call.op = "recommend"

RecommendReturned == RecommendEnded /\ call.outcome = "returned"

Titles(list) == Range(list)

\* C1: no returned recommendation has a course_title that is a member of
\* liked_courses or of exclude_courses.
C1_NoLikedOrExcludedTitle ==
  RecommendReturned =>
    \A n \in 1..Len(call.recommendations) :
      /\ call.recommendations[n].course_title \notin Titles(call.liked_courses)
      /\ call.recommendations[n].course_title \notin Titles(call.exclude_courses)

\* a call that returned something although the table holds a liked title and
\* an excluded one
C1_FilteredAndReturned ==
  /\ RecommendReturned
  /\ call.recommendations # <<>>
  /\ \E i \in Rows(courses_df) : courses_df[i].course_title \in Titles(call.liked_courses)
  /\ \E i \in Rows(courses_df) : courses_df[i].course_title \in Titles(call.exclude_courses)

\* the rows whose title is in neither list
Candidates ==
  {i \in Rows(courses_df) :
     /\ courses_df[i].course_title \notin Titles(call.liked_courses)
     /\ courses_df[i].course_title \notin Titles(call.exclude_courses)}

\* C2: every recommend() call with limit >= 1 returns min(limit, number of
\* items whose title is in neither list) recommendations; when no item
\* survives the result is the empty list and no error is raised.
C2_LengthIsMin ==
  (RecommendEnded /\ call.limit >= 1) =>
    /\ call.outcome = "returned"
    /\ Len(call.recommendations) = Min2(call.limit, Cardinality(Candidates))

\* what holds of the code: the length of every list that is returned
C2_LengthIsMinWhenReturned ==
  (RecommendReturned /\ call.limit >= 1) =>
    Len(call.recommendations) = Min2(call.limit, Cardinality(Candidates))

\* and a call ends with an error only when the fallback pattern does not compile
C2_RaisesOnlyOnBadPattern ==
  (RecommendEnded /\ call.outcome = "raised") => ~ValidPattern(call.liked_courses)

C2_NothingSurvivesButRaised ==
  RecommendEnded /\ Candidates = {} /\ call.outcome = "raised"

C2_EmptyListReturned ==
  RecommendReturned /\ Candidates = {} /\ call.recommendations = <<>>

\* C3: the list is in descending order of similarity_score, and items of
\* equal score are in the order of the item table (a stable sort).
C3_SortedStable ==
  RecommendReturned =>
    \A a, b \in 1..Len(call.recommendations) :
      a < b =>
        /\ call.recommendations[a].similarity_score >= call.recommendations[b].similarity_score
        /\ call.recommendations[a].similarity_score = call.recommendations[b].similarity_score
             => call.rows[a] < call.rows[b]

\* what holds of the code: the descending order
C3_SortedDescending ==
  RecommendReturned =>
    \A a, b \in 1..Len(call.recommendations) :
      a < b =>
        call.recommendations[a].similarity_score >= call.recommendations[b].similarity_score

\* two rows of equal score returned in the reverse of the table's order
C3_TieReversed ==
  /\ RecommendReturned
  /\ \E a, b \in 1..Len(call.recommendations) :
       /\ a < b
       /\ call.recommendations[a].similarity_score = call.recommendations[b].similarity_score
       /\ call.rows[a] > call.rows[b]
       /\ call.recommendations[a].course_title # call.recommendations[b].course_title

\* C4: of two items with the same base cosine similarity, rating and
\* enrollment, one in the profile's cluster and one not, the one in the
\* cluster has a final score >= the other's.
C4_BoostNeverLowers ==
  RecommendReturned =>
    \A i, j \in Rows(courses_df) :
      (/\ call.similarities[i] = call.similarities[j]
       /\ courses_df[i].course_rating = courses_df[j].course_rating
       /\ courses_df[i].enrollment_numeric = courses_df[j].enrollment_numeric
       /\ courses_df[i].cluster = call.user_cluster
       /\ courses_df[j].cluster # call.user_cluster)
      => call.scores[i] >= call.scores[j]

\* what holds of the code: the same, for a base similarity that is not negative
C4_BoostNeverLowersNonNegative ==
  RecommendReturned =>
    \A i, j \in Rows(courses_df) :
      (/\ call.similarities[i] = call.similarities[j]
       /\ call.similarities[i] >= 0
       /\ courses_df[i].course_rating = courses_df[j].course_rating
       /\ courses_df[i].enrollment_numeric = courses_df[j].enrollment_numeric
       /\ courses_df[i].cluster = call.user_cluster
       /\ courses_df[j].cluster # call.user_cluster)
      => call.scores[i] >= call.scores[j]

\* ------------------------------------------------------------- claims: C6
\* the pool liked_courses is matched against: the rows the difficulty filter left
CurrentPool == PoolDifficulty(courses_df, call.preferred_difficulty)

\* the profile of the same request without liked_courses
ProfileWithoutLiked ==
  CreateUserProfile(courses_df, feature_matrix, call.preferred_difficulty, <<>>,
                    call.preferred_organizations, call.rating_bias)

\* the same profile with the 0.5 down-weighting applied to it
HalfWeightProfileWithoutLiked ==
  LET pool == NarrowedPool(courses_df, call.preferred_difficulty, <<>>,
                           call.preferred_organizations)
  IN Normalize(WeightedMean(courses_df, feature_matrix,
                            IF pool = {} THEN Rows(courses_df) ELSE pool,
                            50, call.rating_bias))

C8_SharedUnchanged ==
  [][(phase = "idle" /\ phase' = "done") => shared' = shared]_vars

\* a recommend() call that failed, after which the artifacts are in use again
C8_CallFailed == RecommendEnded /\ call.outcome = "raised"

\* C9 as stated: get_cluster_info(cluster_id) fails with an invalid cluster
\* id error for every cluster_id outside [0, k) and returns a summary only
\* for cluster_id in [0, k).
C9_InvalidIdFails ==
  (phase = "done" /\ call.op \in {"get_cluster_info", "GET /clusters"}) =>
    (call.outcome = "raised") <=>
      (call.cluster_id < 0 \/ call.cluster_id >= kmeans_model.n_clusters)

\* C9 as amended: the /clusters/{cluster_id} endpoint fails with the invalid
\* cluster id error (400) for every cluster_id outside [0, k) and returns the
\* summary of CourseRecommender.get_cluster_info only for cluster_id in [0, k).
C9_EndpointInvalidIdFails ==
  (phase = "done" /\ call.op = "GET /clusters") =>
    /\ (call.cluster_id < 0 \/ call.cluster_id >= kmeans_model.n_clusters) =>
         (call.outcome = "raised" /\ call.error = "400 Invalid cluster_id")
    /\ (call.cluster_id >= 0 /\ call.cluster_id < kmeans_model.n_clusters) =>
         (call.outcome = "returned" /\ call.info = ClusterInfo(courses_df, call.cluster_id))

\* the endpoint refused the first id past the last cluster
C9_EndpointRefusedK ==
  /\ phase = "done" /\ call.op = "GET /clusters"
  /\ call.cluster_id = kmeans_model.n_clusters
  /\ call.outcome = "raised"

\* ------------------------------------------------------------ claims: C12
\* the '; '-joined explanation of a returned recommendation, built from five
\* literals and the fallback literal, in the fixed order of C12
ExpectedExplanation(n, same, matches, from, highly, popular, fallback) ==
  LET r == call.recommendations[n]
      parts ==
        (IF r.cluster = call.user_cluster THEN <<<<same>>>> ELSE <<>>)
        \o (IF call.preferred_difficulty # "" /\ r.difficulty = call.preferred_difficulty
            THEN <<<<matches, call.preferred_difficulty, " difficulty preference">>>>
            ELSE <<>>)
        \o (IF call.preferred_organizations # <<>>
               /\ r.organization \in Range(call.preferred_organizations)
            THEN <<<<from, r.organization>>>> ELSE <<>>)
        \o (IF r.rating >= 45 THEN <<<<highly>>>> ELSE <<>>)
        \o (IF courses_df[call.rows[n]].enrollment_numeric >= 1000000
            THEN <<<<popular>>>> ELSE <<>>)
  IN IF parts = <<>> THEN <<fallback>> ELSE Join(parts)

\* C12 as stated: the explanation is the '; '-joined concatenation, in this
\* order and of those that hold, of "same cluster as your preferences",
\* "matches your {difficulty} difficulty preference", "from preferred
\* organization: {org}", "highly rated course" (rating >= 4.5), "popular
\* course (1M+ enrollments)" (enrollment >= 1,000,000), and the literal
\* "similar content and features" when none holds.
C12_ExplanationLowerCase ==
  RecommendReturned =>
    \A n \in 1..Len(call.recommendations) :
      call.recommendations[n].explanation =
        ExpectedExplanation(n, "same cluster as your preferences", "matches your ",
                            "from preferred organization: ", "highly rated course",
                            "popular course (1M+ enrollments)",
                            "similar content and features")

\* C12 as amended: the same, with the literals as the code writes them, each
\* with a capital first letter: "Same cluster as your preferences", "Matches
\* your {difficulty} difficulty preference", "From preferred organization:
\* {org}", "Highly rated course", "Popular course (1M+ enrollments)", and
\* "Similar content and features" when none holds.
C12_ExplanationCapitalised ==
  RecommendReturned =>
    \A n \in 1..Len(call.recommendations) :
      call.recommendations[n].explanation =
        ExpectedExplanation(n, "Same cluster as your preferences", "Matches your ",
                            "From preferred organization: ", "Highly rated course",
                            "Popular course (1M+ enrollments)",
                            "Similar content and features")

\* one list with a recommendation for which all five hold and one for which
\* none holds
C12_AllFiveAndFallbackSeen ==
  /\ RecommendReturned
  /\ \E n \in 1..Len(call.recommendations) :
       Len(call.recommendations[n].explanation) = 12
  /\ \E n \in 1..Len(call.recommendations) :
       call.recommendations[n].explanation = <<"Similar content and features">>

\* ------------------------------------------------------------ claims: C13
\* C13: for every profile _create_user_profile produces and every row of the
\* feature matrix, the base cosine similarity recommend() computes before any
\* boost lies in [0, 1]: it is never negative.  Similarities are in
\* thousandths; the two norms are rounded down to integers (each at least 173
\* here), which makes a quotient up to 1% too large: the ends allow for that.
C13_CosineInUnitInterval ==
  RecommendReturned =>
    \A i \in Rows(courses_df) :
      call.similarities[i] >= 0 /\ call.similarities[i] <= 1000 + 10

\* what holds of the code: the similarity lies in [-1, 1]
C13_CosineInSignedUnitInterval ==
  RecommendReturned =>
    \A i \in Rows(courses_df) :
      call.similarities[i] >= -(1000 + 10) /\ call.similarities[i] <= 1000 + 10

\* a row with a negative base similarity was returned as a recommendation
C13_NegativeSimilarityReturned ==
  /\ RecommendReturned
  /\ \E n \in 1..Len(call.recommendations) : call.similarities[call.rows[n]] < 0

\* ------------------------------------------------------------ claims: C15
\* preferred_difficulty is given and no row has exactly that difficulty
DifficultyUnmatched ==
  /\ call.preferred_difficulty # ""
  /\ \A i \in Rows(courses_df) : courses_df[i].course_difficulty # call.preferred_difficulty

\* the pool of the call after all narrowing
CallPool ==
  NarrowedPool(courses_df, call.preferred_difficulty, call.liked_courses,
               call.preferred_organizations)

\* the profile built from the full item set at weight 0.5
FullSetProfile ==
  Normalize(WeightedMean(courses_df, feature_matrix, Rows(courses_df), 50, call.rating_bias))

\* C15: the pool is empty after all narrowing (0.5 weight, revert to the full
\* item set) if and only if preferred_difficulty is given and no item has
\* exactly that difficulty; liked_courses and preferred_organizations never
\* empty the pool, and in the empty-pool case they have no influence: the
\* profile is built from the full item set exactly as for a request with no
\* liked courses and no organizations.
C15_EmptyPoolIffDifficultyUnmatched ==
  RecommendEnded =>
    /\ call.outcome = "returned" =>
         /\ (CallPool = {}) <=> DifficultyUnmatched
         /\ (call.weight = 50) <=> DifficultyUnmatched
    /\ DifficultyUnmatched =>
         /\ call.outcome = "returned"
         /\ call.user_profile = FullSetProfile

\* what holds of the code: the same of every call that returns
C15_EmptyPoolIffDifficultyUnmatchedWhenReturned ==
  RecommendReturned =>
    /\ (CallPool = {}) <=> DifficultyUnmatched
    /\ (call.weight = 50) <=> DifficultyUnmatched
    /\ DifficultyUnmatched => call.user_profile = FullSetProfile

\* an unmatched difficulty, liked courses and organizations given, and the
\* profile of the full item set
C15_EmptyPoolWithLikedAndOrganizations ==
  /\ RecommendReturned /\ DifficultyUnmatched
  /\ call.liked_courses # <<>> /\ call.preferred_organizations # <<>>
  /\ call.user_profile = FullSetProfile

\* an unmatched difficulty and a liked title that is no pattern: no profile
C15_EmptyPoolButRaised ==
  RecommendEnded /\ DifficultyUnmatched /\ call.outcome = "raised"

\* ------------------------------------------------- app.py: get_recommender
\* The endpoints are plain functions, which the server runs on worker threads:
\* requests interleave between any two steps of get_recommender.
Threads == 1..NThreads

Endpoints == {"/recommend", "/health", "/clusters", "/courses"}

AppInit ==
  /\ recommender = 0
  /\ constructed = 0
  /\ files \in BOOLEAN
  /\ pc = [t \in Threads |-> "idle"]
  /\ endpoint = [t \in Threads |-> "none"]
  /\ tmp = [t \in Threads |-> 0]
  /\ observed = [t \in Threads |-> [kind |-> "none", instance |-> 0]]
  /\ requests = [t \in Threads |-> 0]

AppIdle ==
  /\ recommender = 0
  /\ constructed = 0
  /\ files = FALSE
  /\ pc = <<>>
  /\ endpoint = <<>>
  /\ tmp = <<>>
  /\ observed = <<>>
  /\ requests = <<>>

\* train.py writes the three artifacts
Train ==
  /\ ~files
  /\ files' = TRUE
  /\ UNCHANGED <<recommender, constructed, pc, endpoint, tmp, observed, requests,
                 en_vars, el_vars, rec_vars, pp_vars>>

\* a request arrives and its endpoint calls get_recommender()
Request(t) ==
  /\ pc[t] = "idle"
  /\ requests[t] < MaxRequests
  /\ \E e \in Endpoints : endpoint' = [endpoint EXCEPT ![t] = e]
  /\ requests' = [requests EXCEPT ![t] = @ + 1]
  /\ pc' = [pc EXCEPT ![t] = "line30"]
  /\ UNCHANGED <<recommender, constructed, files, tmp, observed, en_vars, el_vars, rec_vars, pp_vars>>

\* line 30: if recommender is None
CheckNone(t) ==
  /\ pc[t] = "line30"
  /\ pc' = [pc EXCEPT ![t] = IF recommender = 0 THEN "line36" ELSE "line47"]
  /\ UNCHANGED <<recommender, constructed, files, endpoint, tmp, observed, requests,
                 en_vars, el_vars, rec_vars, pp_vars>>

\* lines 36-40: a missing artifact is a 503
CheckFiles(t) ==
  /\ pc[t] = "line36"
  /\ IF files
     THEN /\ pc' = [pc EXCEPT ![t] = "line42"]
          /\ UNCHANGED observed
     ELSE /\ pc' = [pc EXCEPT ![t] = "idle"]
          /\ observed' = [observed EXCEPT ![t] = [kind |-> "503", instance |-> 0]]
  /\ UNCHANGED <<recommender, constructed, files, endpoint, tmp, requests,
                 en_vars, el_vars, rec_vars, pp_vars>>

\* lines 42-46, right-hand side: CourseRecommender(...) loads the artifacts
Construct(t) ==
  /\ pc[t] = "line42"
  /\ constructed' = constructed + 1
  /\ tmp' = [tmp EXCEPT ![t] = constructed + 1]
  /\ pc' = [pc EXCEPT ![t] = "store"]
  /\ UNCHANGED <<recommender, files, endpoint, observed, requests,
                 en_vars, el_vars, rec_vars, pp_vars>>

\* line 42, the assignment to the global
Store(t) ==
  /\ pc[t] = "store"
  /\ recommender' = tmp[t]
  /\ pc' = [pc EXCEPT ![t] = "line47"]
  /\ UNCHANGED <<constructed, files, endpoint, tmp, observed, requests,
                 en_vars, el_vars, rec_vars, pp_vars>>

\* line 47: return recommender
ReturnRecommender(t) ==
  /\ pc[t] = "line47"
  /\ observed' = [observed EXCEPT ![t] = [kind |-> "recommender", instance |-> recommender]]
  /\ pc' = [pc EXCEPT ![t] = "idle"]
  /\ UNCHANGED <<recommender, constructed, files, endpoint, tmp, requests,
                 en_vars, el_vars, rec_vars, pp_vars>>

AppNext ==
  \/ Train
  \/ \E t \in Threads :
       \/ Request(t) \/ CheckNone(t) \/ CheckFiles(t)
       \/ Construct(t) \/ Store(t) \/ ReturnRecommender(t)

\* -------------------------------------------------------------- claims: C7
\* C7: under any interleaving of concurrent requests, the artifacts are
\* loaded and the CourseRecommender constructed at most once per process, and
\* every request observes that same single instance.
C7_LoadedOnce ==
  /\ constructed <= 1
  /\ \A t, u \in Threads :
       (observed[t].kind = "recommender" /\ observed[u].kind = "recommender") =>
         observed[t].instance = observed[u].instance

\* two requests have both passed line 30 before either stored its object
C7_BothPastCheck == \A t \in Threads : pc[t] = "line42"

\* one request at a time: the second one finds the global set
C7_SequentialLoadsOnce ==
  (\A t \in Threads : requests[t] > 0 => t = 1) => constructed <= 1

\* -------------------------------------------------- train.py: elbow method
\* np.diff
Diff(s) == [i \in 1..(Len(s) - 1) |-> s[i + 1] - s[i]]

\* np.argmax: the 0-based index of the first occurrence of the maximum
ArgMax(s) ==
  (CHOOSE i \in 1..Len(s) :
     /\ \A j \in 1..Len(s) : s[j] <= s[i]
     /\ \A j \in 1..(i - 1) : s[j] < s[i]) - 1

\* calculate_elbow_k, from the inertias its KMeans fits give for
\* k = min_k .. max_k; max_k is min_k + len(inertias) - 1
ElbowK(inertias, min_k) ==
  LET max_k == min_k + Len(inertias) - 1
  IN IF Len(inertias) < 3 THEN min_k + 1
     ELSE LET first_diff == Diff(inertias)
              second_diff == Diff(first_diff)
              optimal_k == ArgMax(second_diff) + min_k + 2
          IN Max2(min_k + 1, Min2(optimal_k, max_k))

MinKs == {1, 2}

ElbowInit ==
  /\ el_inertias \in SeqsUpTo(0..MaxInertia, MaxCand)
  /\ el_min_k \in MinKs
  /\ el_out = 0
  /\ el_pc = "call"

ElbowIdle ==
  /\ el_inertias = <<>>
  /\ el_min_k = 2
  /\ el_out = 0
  /\ el_pc = "off"

CalculateElbowK ==
  /\ el_pc = "call"
  /\ el_out' = ElbowK(el_inertias, el_min_k)
  /\ el_pc' = "done"
  /\ UNCHANGED <<el_inertias, el_min_k, en_vars, rec_vars, app_vars, pp_vars>>

\* -------------------------------------------------------------- claims: C5
StrictlyDecreasing(s) == \A i \in 1..(Len(s) - 1) : s[i] > s[i + 1]

\* inertia[k-1] - 2*inertia[k] + inertia[k+1], inertia[k] being s[k - min_k + 1]
Curvature(s, min_k, k) ==
  s[k - min_k] - 2 * s[k - min_k + 1] + s[k - min_k + 2]

InteriorKs(s, min_k) == (min_k + 1)..(min_k + Len(s) - 2)

UniqueMaxCurvature(s, min_k, k) ==
  /\ k \in InteriorKs(s, min_k)
  /\ \A j \in InteriorKs(s, min_k) \ {k} : Curvature(s, min_k, j) < Curvature(s, min_k, k)

\* C5: for a strictly decreasing inertia sequence of at least 3 candidates
\* whose second difference has its unique maximum at an interior k*,
\* calculate_elbow_k returns k*.
C5_ElbowReturnsBend ==
  (el_pc = "done" /\ Len(el_inertias) >= 3 /\ StrictlyDecreasing(el_inertias)) =>
    \A k \in InteriorKs(el_inertias, el_min_k) :
      UniqueMaxCurvature(el_inertias, el_min_k, k) => el_out = k

\* what the code returns there: the k after the bend
C5_ElbowReturnsBendPlusOne ==
  (el_pc = "done" /\ Len(el_inertias) >= 3 /\ StrictlyDecreasing(el_inertias)) =>
    \A k \in InteriorKs(el_inertias, el_min_k) :
      UniqueMaxCurvature(el_inertias, el_min_k, k) => el_out = k + 1

C5_SharpBendSeen ==
  /\ el_pc = "done" /\ Len(el_inertias) = 4 /\ StrictlyDecreasing(el_inertias)
  /\ UniqueMaxCurvature(el_inertias, el_min_k, el_min_k + 1)

\* ------------------------------ preprocessing.py: the preprocessor's life
MaxBatch == 2

\* CoursePreprocessor.__init__: nothing fitted
NewPreprocessor ==
  [is_fitted |-> FALSE, scaler |-> <<>>, vocabulary |-> <<>>, feature_names |-> <<>>]

\* the items batches are drawn from: three organizations, two certificate
\* types, and one item whose enrollment text is no number
BatchItems ==
  <<Item(<<"A", "b">>, "X", "Course", 30, "Beginner", <<"1", "0", "0", "K">>),
    Item(<<"B", "c">>, "Y", "Spec", 50, "Advanced", <<"2", "M">>),
    Item(<<"c", "a">>, "Q", "Course", 40, "Mixed", <<"1", "K">>),
    Item(<<"z", "z">>, "X", "Course", 30, "Beginner", <<".">>)>>

\* the batches: 1 to MaxBatch rows, each an item, in the items' order
Batches ==
  {[i \in 1..Len(c) |-> BatchItems[c[i]]] :
     c \in {c \in UNION {[1..n -> 1..Len(BatchItems)] : n \in 1..MaxBatch} :
              \A i \in 1..(Len(c) - 1) : c[i] <= c[i + 1]}}

\* lines 60-62, 113-115: apply(_normalize_enrollment) raises on the first
\* row whose enrollment float() rejects
EnrollmentRaises(df) ==
  \E i \in 1..Len(df) : NormalizeEnrollment(df[i].course_students_enrolled).kind = "raise"

\* CoursePreprocessor.save: what is pickled
SavedData(pre) ==
  [scaler |-> pre.scaler, tfidf_vectorizer |-> pre.vocabulary,
   feature_names |-> pre.feature_names, is_fitted |-> pre.is_fitted]

\* a load that builds cls() and does not restore is_fitted
LoadedStateFlagLost(data) ==
  [is_fitted |-> FALSE, scaler |-> data.scaler, vocabulary |-> data.tfidf_vectorizer,
   feature_names |-> data.feature_names]

\* CoursePreprocessor.load: the preprocessor built from the pickle
LoadedState(data) ==
  [is_fitted |-> data.is_fitted, scaler |-> data.scaler,
   vocabulary |-> data.tfidf_vectorizer, feature_names |-> data.feature_names]

NoPreCall ==
  [op |-> "none", batch |-> <<>>, outcome |-> "none", error |-> "", matrix |-> <<>>,
   before |-> NewPreprocessor, fitted_before |-> FALSE]

PreInit ==
  /\ pp = NewPreprocessor
  /\ pp_fitted = FALSE
  /\ pp_file = [kind |-> "none"]
  /\ pp_call = NoPreCall

PreIdle ==
  /\ pp = NewPreprocessor
  /\ pp_fitted = FALSE
  /\ pp_file = [kind |-> "none"]
  /\ pp_call = [NoPreCall EXCEPT !.op = "off"]

PreCall(op, df) ==
  [NoPreCall EXCEPT !.op = op, !.batch = df, !.before = pp, !.fitted_before = pp_fitted]

\* CoursePreprocessor(): a new, unfitted preprocessor takes the place of pp
NewCoursePreprocessor ==
  /\ pp' = NewPreprocessor
  /\ pp_fitted' = FALSE
  /\ pp_call' = [PreCall("__init__", <<>>) EXCEPT !.outcome = "returned"]
  /\ UNCHANGED <<pp_file, en_vars, el_vars, rec_vars, app_vars>>

\* CoursePreprocessor.fit_transform
FitTransform ==
  \E df \in Batches :
    /\ IF EnrollmentRaises(df)
       THEN /\ pp_call' = [PreCall("fit_transform", df) EXCEPT
                             !.outcome = "raised",
                             !.error = "ValueError: could not convert string to float"]
            /\ UNCHANGED <<pp, pp_fitted>>
       ELSE \E fitted \in {FitState(df)} :
              /\ pp' = fitted
              /\ pp_fitted' = TRUE
              /\ pp_call' = [PreCall("fit_transform", df) EXCEPT
                               !.outcome = "returned",
                               !.matrix = TransformMatrix(fitted, df)]
    /\ UNCHANGED <<pp_file, en_vars, el_vars, rec_vars, app_vars>>

\* CoursePreprocessor.transform
Transform ==
  \E df \in Batches :
    /\ pp_call' =
         IF ~pp.is_fitted
         THEN [PreCall("transform", df) EXCEPT
                 !.outcome = "raised",
                 !.error = "ValueError: Preprocessor must be fitted before transform"]
         ELSE IF EnrollmentRaises(df)
         THEN [PreCall("transform", df) EXCEPT
                 !.outcome = "raised",
                 !.error = "ValueError: could not convert string to float"]
         ELSE [PreCall("transform", df) EXCEPT
                 !.outcome = "returned", !.matrix = TransformMatrix(pp, df)]
    /\ UNCHANGED <<pp, pp_fitted, pp_file, en_vars, el_vars, rec_vars, app_vars>>

\* CoursePreprocessor.save
Save ==
  /\ pp_file' = [kind |-> "pickle", data |-> SavedData(pp), fitted |-> pp_fitted]
  /\ pp_call' = [PreCall("save", <<>>) EXCEPT !.outcome = "returned"]
  /\ UNCHANGED <<pp, pp_fitted, en_vars, el_vars, rec_vars, app_vars>>

\* CoursePreprocessor.load: the loaded preprocessor takes the place of pp
Load ==
  /\ IF pp_file.kind = "none"
     THEN /\ pp_call' = [PreCall("load", <<>>) EXCEPT
                           !.outcome = "raised", !.error = "FileNotFoundError"]
          /\ UNCHANGED <<pp, pp_fitted>>
     ELSE /\ pp' = LoadedState(pp_file.data)
          /\ pp_fitted' = pp_file.fitted
          /\ pp_call' = [PreCall("load", <<>>) EXCEPT !.outcome = "returned"]
  /\ UNCHANGED <<pp_file, en_vars, el_vars, rec_vars, app_vars>>

PreNext == NewCoursePreprocessor \/ FitTransform \/ Transform \/ Save \/ Load

\* ------------------------------------------------------- claims: C11, C14
PreCallReturned(op) == pp_call.op = op /\ pp_call.outcome = "returned"

\* the value a one-hot column named name has in the row of an item
OneHot(name, item) ==
  IF name[1] = "org" THEN (IF item.course_organization = name[2] THEN 100 ELSE 0)
  ELSE IF item.course_Certificate_type = name[2] THEN 100 ELSE 0

\* C11: for a fitted preprocessor and any batch, with organizations or
\* certificate types not seen at fit time or fitted ones missing, the matrix
\* transform returns has len(feature_names) columns, the one-hot columns in
\* the fitted order: an unseen category has no column and a fitted category
\* absent from the batch is an all-zero column.  (A batch with an enrollment
\* that float() rejects returns no matrix: transform raises.)
C11_TransformKeepsFittedColumns ==
  PreCallReturned("transform") =>
    \A r \in 1..Len(pp_call.batch) :
      /\ Len(pp_call.matrix) = Len(pp_call.batch)
      /\ Len(pp_call.matrix[r]) = Len(pp_call.before.feature_names)
      /\ \A j \in 1..Len(pp_call.before.feature_names) :
           pp_call.before.feature_names[j][1] \in {"org", "cert"} =>
             pp_call.matrix[r][j] = OneHot(pp_call.before.feature_names[j], pp_call.batch[r])

\* a batch with an organization and a certificate type that were not fitted,
\* and without an organization that was
C11_UnseenAndAbsentSeen ==
  /\ PreCallReturned("transform")
  /\ \E r \in 1..Len(pp_call.batch) :
       /\ <<"org", pp_call.batch[r].course_organization>> \notin Range(pp.feature_names)
       /\ <<"cert", pp_call.batch[r].course_Certificate_type>> \notin Range(pp.feature_names)
  /\ \E j \in 1..Len(pp.feature_names) :
       /\ pp.feature_names[j][1] = "org"
       /\ \A r \in 1..Len(pp_call.batch) : pp_call.matrix[r][j] = 0

NotFittedError == "ValueError: Preprocessor must be fitted before transform"

\* C14: transform fails with the not-fitted error if and only if no
\* fit_transform (or load of a fitted state) has happened before it;
\* transform, failing or not, leaves is_fitted, feature_names, scaler and
\* vocabulary as they were, and only fit_transform changes that state (load
\* and the constructor make another preprocessor; a fit_transform that raised
\* has fitted nothing and counts as none).
C14_NotFittedIffNeverFitted ==
  /\ pp_call.op = "transform" =>
       /\ (pp_call.outcome = "raised" /\ pp_call.error = NotFittedError)
            <=> ~pp_call.fitted_before
       /\ pp = pp_call.before
  /\ pp # pp_call.before => pp_call.op \in {"fit_transform", "load", "__init__"}
  /\ pp_call.op = "fit_transform" /\ pp_call.outcome = "raised" => pp = pp_call.before

\* transform refused on a new preprocessor while the pickle of a fitted one
\* is on disk
C14_RefusedBesideFittedPickle ==
  /\ pp_call.op = "transform" /\ pp_call.outcome = "raised"
  /\ pp_call.error = NotFittedError
  /\ pp_file.kind = "pickle" /\ pp_file.data.is_fitted

\* ---------------------------------------------------------- specifications
InitEnroll == EnrollInit /\ ElbowIdle /\ RecIdle /\ AppIdle /\ PreIdle

SpecEnroll == InitEnroll /\ [][NormalizeEnrollmentCall]_vars

InitElbow == ElbowInit /\ EnrollIdle /\ RecIdle /\ AppIdle /\ PreIdle

SpecElbow == InitElbow /\ [][CalculateElbowK]_vars

Init == RecInit /\ EnrollIdle /\ ElbowIdle /\ AppIdle /\ PreIdle

Next == RecNext

Spec == Init /\ [][Next]_vars

InitApp == AppInit /\ EnrollIdle /\ ElbowIdle /\ RecIdle /\ PreIdle

SpecApp == InitApp /\ [][AppNext]_vars

InitPre == PreInit /\ EnrollIdle /\ ElbowIdle /\ RecIdle /\ AppIdle

SpecPre == InitPre /\ [][PreNext]_vars
====
